---- MODULE Spec2Model ----
(***************************************************************************)
(* Model of fileOrg.py: a polling file organiser.  The process reads       *)
(* config.ini and filePaths.json, then repeatedly lists the watch          *)
(* directory, moves every file whose name starts with a registered prefix  *)
(* into the directory of that prefix (removing "<prefix> " from the name)  *)
(* and, when hashing is on, records the digest of the moved file in        *)
(* fileHashes.json.  File names are sequences of one-character strings so  *)
(* that str.startswith and str.replace are computed, not assumed.          *)
(* External actors (whoever drops files, edits config.ini) take steps that *)
(* interleave with the steps of the process.                               *)
(***************************************************************************)
EXTENDS Integers, Sequences, FiniteSets, TLC

VARIABLES config, filePaths, watch, dirExists, dest, ledgerFile,
          pc, currentPath, hashCode, getHashes, isRunning, path, hashStore,
          onlyfiles, fi, pj, ext, drops, interfered

vars == <<config, filePaths, watch, dirExists, dest, ledgerFile,
          pc, currentPath, hashCode, getHashes, isRunning, path, hashStore,
          onlyfiles, fi, pj, ext, drops, interfered>>

progVars == <<pc, currentPath, hashCode, getHashes, isRunning, path,
              hashStore, onlyfiles, fi, pj>>

(* ---- bounds on the external actors ------------------------------------ *)
\* environment steps in a run, and files dropped among them
MaxExt == 3
MaxDrops == 2

(* ---- strings ----------------------------------------------------------- *)
SP == <<" ">>
KeySep == <<" ", "|", " ">>

PA == <<"a">>
PB == <<"b">>
PAB == <<"a", "b">>
PABar == <<"a", " ", "|", " ", "b">>
PEmpty == <<"e", "m", "p", "t", "y">>

AllPrefixes == {PA, PB, PAB, PABar, PEmpty}

\* contents of filePaths.json the runs start from
PathChoices == {<<PA>>, <<PB, PA>>, <<PA, PAB>>, <<PABar, PA>>}

\* what the external actor writes into filePaths.json when reconfiguring
EditedPaths == <<PB>>

\* the default written when filePaths.json is absent
DefaultPaths == <<PEmpty>>

F_a_x == <<"a", " ", "x">>
F_x == <<"x">>
F_ab_x == <<"a", "b", " ", "x">>
F_a_a_x == <<"a", " ", "a", " ", "x">>
F_a_ == <<"a", " ">>
F_aa_x == <<"a", "a", " ", "x">>
F_a_b_bar_c == <<"a", " ", "b", " ", "|", " ", "c">>
F_a_bar_b_c == <<"a", " ", "|", " ", "b", " ", "c">>

FileNames == {F_a_x, F_x, F_ab_x, F_a_a_x, F_a_, F_aa_x, F_a_b_bar_c,
              F_a_bar_b_c}

Contents == {"x", "y"}
NoFile == "<absent>"
NoEntry == "<none>"

WatchDirs == {"Images", "Inbox"}

\* what the external actor may drop: <<directory, file name, bytes>>
DropChoices ==
    {<<"Images", F_a_x, "x">>, <<"Images", F_x, "x">>,
     <<"Images", F_ab_x, "x">>, <<"Images", F_a_a_x, "y">>,
     <<"Images", F_a_, "x">>, <<"Images", F_aa_x, "x">>,
     <<"Images", F_a_b_bar_c, "x">>,
     <<"Images", F_a_bar_b_c, "y">>, <<"Inbox", F_a_x, "y">>}

HashMethods == {"MD5", "SHA-1", "SHA-224", "SHA-256", "SHA-512"}

\* what the external actor may write into config.ini: the running flag, or
\* (a reconfiguration, which rewrites filePaths.json too) the three other keys
EditChoices ==
    {[isRunning |-> "false"], [isRunning |-> "true"],
     [getHashes |-> "false", hashMethod |-> "SHA-1", currentPathName |-> "Inbox"]}

(* ---- str.startswith, str.replace --------------------------------------- *)
\* the prefix test done wrongly: the method is named, not called
startswithAlways(s, b) == TRUE


startswith(s, b) == Len(b) <= Len(s) /\ SubSeq(s, 1, Len(b)) = b

\* the renaming done wrongly: only a leading occurrence is removed
replaceLeading(s, old) ==
    IF Len(old) <= Len(s) /\ SubSeq(s, 1, Len(old)) = old
    THEN SubSeq(s, Len(old) + 1, Len(s))
    ELSE s

RECURSIVE replace(_, _)
\* s.replace(old, ""): every non-overlapping occurrence, left to right
replace(s, old) ==
    IF Len(s) < Len(old) THEN s
    ELSE IF SubSeq(s, 1, Len(old)) = old
         THEN replace(SubSeq(s, Len(old) + 1, Len(s)), old)
         ELSE <<Head(s)>> \o replace(Tail(s), old)

dest_name(file, b) == replace(file, b \o SP)

\* shutil.move(src, dest): dest "b/" is a directory when dest_name is empty,
\* and the file then keeps its own base name inside it
real_dst(file, b) == IF dest_name(file, b) = <<>> THEN file ELSE dest_name(file, b)

ledgerKey(b, name) == b \o KeySep \o name

DestNames == {dest_name(f, b) : f \in FileNames, b \in AllPrefixes}
Names == FileNames \cup (DestNames \ {<<>>})
Keys == {ledgerKey(b, n) : b \in AllPrefixes, n \in DestNames \cup FileNames}

EmptyDir == [n \in Names |-> NoFile]
EmptyStore == [k \in Keys |-> NoEntry]

(* ---- hashlib ------------------------------------------------------------ *)
md5 == [c \in Contents |->
          IF c = "x" THEN "9dd4e461268c8034f5c8564e155c67a6"
          ELSE "415290769594460e2e485922904f345d"]
sha1 == [c \in Contents |->
          IF c = "x" THEN "11f6ad8ec52a2984abaafd7c3b516503785c2072"
          ELSE "95cb0bfd2977c761298d9624e4b4d4c72a39974a"]
sha224 == [c \in Contents |->
          IF c = "x" THEN "54a2f7f92a5f975d8096af77a126edda7da60c5aa872ef1b871701ae"
          ELSE "518d3dd9f8f74ecc34ed7d6ce4310b5fbab8f222b1006ffaf6ea0c43"]
sha256 == [c \in Contents |->
          IF c = "x" THEN "2d711642b726b04401627ca9fbac32f5c8530fb1903cc4db02258717921a4881"
          ELSE "a1fce4363854ff888cff4b8e7875d600c2682390412a8cf79b37d0b11148b0fa"]

\* the choice done wrongly: an unknown method falls back to SHA-256
hashObjectOtherFallback(method) ==
    IF method = "MD5" THEN md5
    ELSE IF method = "SHA-1" THEN sha1
    ELSE IF method = "SHA-224" THEN sha224
    ELSE sha256

\* the digest object hashFile creates for a hashMethod value
hashObject(method) ==
    IF method = "MD5" THEN md5
    ELSE IF method = "SHA-1" THEN sha1
    ELSE IF method = "SHA-256" THEN sha256
    ELSE IF method = "SHA-224" THEN sha224
    ELSE md5

\* hashing done wrongly: the prefix directory is read as if it were the file
hashFileDirAsFile(method, b, name) ==
    IF name = <<>>
    THEN [ok |-> TRUE, hex |-> hashObject(method)["x"]]
    ELSE IF dest[b][name] = NoFile
    THEN [ok |-> FALSE, hex |-> NoEntry]
    ELSE [ok |-> TRUE, hex |-> hashObject(method)[dest[b][name]]]

\* hashFile(os.path.join(b, name)): open() raises on a directory ("b/") and
\* on a missing file
hashFile(method, b, name) ==
    IF name = <<>> \/ dest[b][name] = NoFile
    THEN [ok |-> FALSE, hex |-> NoEntry]
    ELSE [ok |-> TRUE, hex |-> hashObject(method)[dest[b][name]]]

(* ---- settings ----------------------------------------------------------- *)
DefaultConfig ==
    [present |-> TRUE, isRunning |-> "true", getHashes |-> "true",
     hashMethod |-> "MD5", currentPathName |-> "Images"]

AbsentConfig ==
    [present |-> FALSE, isRunning |-> "", getHashes |-> "",
     hashMethod |-> "", currentPathName |-> ""]

\* the conversion done wrongly: the truth value of the string is taken
toBoolTruthy(v) == v # ""

\* lines 68-69, 159-162: True if the value is the string "true", else False
toBool(v) == v = "true"

\* config.ini as the process finds it: bootstrapped when absent
bootstrap(c) == IF c.present THEN c ELSE DefaultConfig

\* the re-read done wrongly: every setting is taken from config.ini
reloadAll(c, cur) ==
    [isRunning |-> (c.isRunning = "true"),
     getHashes |-> (c.getHashes = "true"),
     hashCode |-> c.hashMethod,
     currentPath |-> c.currentPathName]

\* the re-read done wrongly: the running flag is not assigned
reloadNothing(c, cur) == cur

\* the settings the loop holds after re-reading config.ini: only the running
\* flag is assigned
reload(c, cur) ==
    [isRunning |-> toBool(c.isRunning),
     getHashes |-> cur.getHashes,
     hashCode |-> cur.hashCode,
     currentPath |-> cur.currentPath]

\* the loop done wrongly: a stopped loop keeps polling config.ini
loopStepPolling(c, cur) ==
    IF cur.isRunning
    THEN [pc |-> "main", s |-> reload(c, cur)]
    ELSE [pc |-> "sleep", s |-> reload(c, cur)]

\* one test of `while isRunning:` followed, when it holds, by the re-read
loopStep(c, cur) ==
    IF cur.isRunning
    THEN [pc |-> "main", s |-> reload(c, cur)]
    ELSE [pc |-> "done", s |-> cur]

settings == [isRunning |-> isRunning, getHashes |-> getHashes,
             hashCode |-> hashCode, currentPath |-> currentPath]

\* the update done wrongly: the mapping is replaced by the new entry alone
updateReplacesAll(store, key, hex) == [EmptyStore EXCEPT ![key] = hex]

\* hashStore.update({key: hex}): insert or overwrite
update(store, key, hex) == [store EXCEPT ![key] = hex]

\* fileHashes.json as the process has known it to be before it ran
OldLedger ==
    [EmptyStore EXCEPT ![ledgerKey(PB, <<"x">>)] = sha1["y"],
                       ![ledgerKey(PA, <<"x">>)] = sha1["y"]]

\* the rewrite done wrongly: entries of the file not in the mapping survive
dumpMerging(file, store) ==
    [state |-> "json",
     data |-> [k \in Keys |->
                 IF store[k] # NoEntry THEN store[k] ELSE file.data[k]]]

\* lines 134-135: open(..., 'w') and json.dump(hashStore): the file holds
\* the mapping and nothing else
dump(file, store) == [state |-> "json", data |-> store]

\* lines 131-132: open(..., 'a').close() creates an empty file when there is
\* none and leaves an existing one as it is
bootstrapLedger(file) ==
    IF file.state = "absent" THEN [state |-> "empty", data |-> EmptyStore]
    ELSE file

(* ---- the file listing --------------------------------------------------- *)
listdir(d) == {n \in Names : watch[d][n] # NoFile}

\* every order in which os.listdir may return the files
Orders(S) == {q \in [1..Cardinality(S) -> S] : \A n \in S : \E k \in DOMAIN q : q[k] = n}

\* the iteration done wrongly: the last file of the listing is never visited
nextPosSkippingLast(i, j) ==
    IF j < Len(path) /\ i < Len(onlyfiles)
    THEN [pc |-> "scan", fi |-> i, pj |-> j + 1]
    ELSE IF i + 1 < Len(onlyfiles) THEN [pc |-> "scan", fi |-> i + 1, pj |-> 1]
    ELSE [pc |-> "sleep", fi |-> 0, pj |-> 0]

\* position of the scan after the pair (i, j) has been handled
nextPos(i, j) ==
    IF j < Len(path) THEN [pc |-> "scan", fi |-> i, pj |-> j + 1]
    ELSE IF i < Len(onlyfiles) THEN [pc |-> "scan", fi |-> i + 1, pj |-> 1]
    ELSE [pc |-> "sleep", fi |-> 0, pj |-> 0]

firstPos ==
    IF onlyfiles' # <<>> /\ path # <<>>
    THEN [pc |-> "scan", fi |-> 1, pj |-> 1]
    ELSE [pc |-> "sleep", fi |-> 0, pj |-> 0]

(* ---- initial state ------------------------------------------------------ *)
\* the installations the runs start from: a fresh one (no config.ini, no
\* filePaths.json, no Images directory); the prefix list ["a"] with either
\* value of the two flags; every prefix list and every hashMethod value with
\* both flags on.  The installations that do not hash with MD5 have hashed
\* before: their fileHashes.json holds two entries.
NoLedger == [state |-> "absent", data |-> EmptyStore]

StartChoices ==
    {[config |-> AbsentConfig,
      filePaths |-> [present |-> FALSE, data |-> <<>>],
      dirExists |-> {"Inbox"},
      ledgerFile |-> NoLedger]}
    \cup
    {[config |-> [present |-> TRUE, isRunning |-> r, getHashes |-> g,
                  hashMethod |-> "MD5", currentPathName |-> "Images"],
      filePaths |-> [present |-> TRUE, data |-> <<PA>>],
      dirExists |-> WatchDirs,
      ledgerFile |-> NoLedger] :
        r \in {"true", "false"}, g \in {"true", "false"}}
    \cup
    {[config |-> [present |-> TRUE, isRunning |-> "true", getHashes |-> "true",
                  hashMethod |-> w[1], currentPathName |-> "Images"],
      filePaths |-> [present |-> TRUE, data |-> w[2]],
      dirExists |-> WatchDirs,
      ledgerFile |-> IF w[1] = "MD5" THEN NoLedger
                     ELSE [state |-> "json", data |-> OldLedger]] :
        w \in ({"MD5"} \X PathChoices) \cup (HashMethods \X {<<PA>>})}

\* the state before the process has run a line, for a set of installations
InitFrom(choices) ==
    /\ \E w \in choices :
          /\ config = w.config
          /\ filePaths = w.filePaths
          /\ dirExists = w.dirExists
          /\ ledgerFile = w.ledgerFile
    /\ watch = [d \in WatchDirs |-> EmptyDir]
    /\ dest = [b \in AllPrefixes |-> EmptyDir]
    /\ pc = "boot"
    /\ currentPath = "Images"
    /\ hashCode = "MD5"
    /\ getHashes = FALSE
    /\ isRunning = FALSE
    /\ path = <<>>
    /\ hashStore = EmptyStore
    /\ onlyfiles = <<>>
    /\ fi = 0
    /\ pj = 0
    /\ ext = 0
    /\ drops = 0
    /\ interfered = FALSE

Init == InitFrom(StartChoices)

\* the installations the liveness runs start from: MD5, and a prefix list
\* with one prefix or with two prefixes that match the same files
LiveStartChoices ==
    {w \in StartChoices :
        /\ w.config.present
        /\ w.config.hashMethod = "MD5"
        /\ w.filePaths.data \in {<<PA>>, <<PA, PAB>>}}

LiveInit == InitFrom(LiveStartChoices)

(* ---- the process -------------------------------------------------------- *)
\* lines 46-69: bootstrap the two resources, read the settings
Boot ==
    /\ pc = "boot"
    /\ config' = bootstrap(config)
    /\ filePaths' = IF filePaths.present THEN filePaths
                    ELSE [present |-> TRUE, data |-> DefaultPaths]
    /\ currentPath' = config'.currentPathName
    /\ hashCode' = config'.hashMethod
    /\ getHashes' = toBool(config'.getHashes)
    /\ isRunning' = toBool(config'.isRunning)
    /\ pc' = "startup"
    /\ UNCHANGED <<watch, dirExists, dest, ledgerFile, path, hashStore,
                   onlyfiles, fi, pj, ext, drops, interfered>>

\* lines 137-153: after the startup delay, load the prefixes and make the
\* directories, or end at once when not running.  dest[b] is the content of
\* the directory of prefix b, which exists from here on for every b of path.
Startup ==
    /\ pc = "startup"
    /\ IF isRunning
       THEN /\ path' = path \o filePaths.data
            /\ dirExists' = dirExists \cup {currentPath}
            /\ pc' = "while"
       ELSE /\ pc' = "done"
            /\ UNCHANGED <<path, dirExists>>
    /\ UNCHANGED <<config, filePaths, watch, dest, ledgerFile, currentPath,
                   hashCode, getHashes, isRunning, hashStore, onlyfiles,
                   fi, pj, ext, drops, interfered>>

\* the loop done wrongly: the re-read also loads filePaths.json again
LoopReloadingPaths ==
    /\ pc = "while"
    /\ LET r == loopStep(config, settings) IN
          /\ pc' = r.pc
          /\ isRunning' = r.s.isRunning
          /\ getHashes' = r.s.getHashes
          /\ hashCode' = r.s.hashCode
          /\ currentPath' = r.s.currentPath
    /\ path' = filePaths.data
    /\ UNCHANGED <<config, filePaths, watch, dirExists, dest, ledgerFile,
                   hashStore, onlyfiles, fi, pj, ext, drops, interfered>>

\* lines 156-162: the loop test and the re-read of config.ini
Loop ==
    /\ pc = "while"
    /\ LET r == loopStep(config, settings) IN
          /\ pc' = r.pc
          /\ isRunning' = r.s.isRunning
          /\ getHashes' = r.s.getHashes
          /\ hashCode' = r.s.hashCode
          /\ currentPath' = r.s.currentPath
    /\ UNCHANGED <<config, filePaths, watch, dirExists, dest, ledgerFile,
                   path, hashStore, onlyfiles, fi, pj, ext, drops, interfered>>

\* line 116: main() lists the regular files of currentPath
List ==
    /\ pc = "main"
    /\ onlyfiles' \in Orders(listdir(currentPath))
    /\ interfered' = FALSE
    /\ LET p == firstPos IN
          /\ pc' = p.pc
          /\ fi' = p.fi
          /\ pj' = p.pj
    /\ UNCHANGED <<config, filePaths, watch, dirExists, dest, ledgerFile,
                   currentPath, hashCode, getHashes, isRunning, path,
                   hashStore, ext, drops>>

\* line 130 done wrongly: the hash is taken whatever getHashes says
afterMoveAlwaysHash(gh, here, nx) == here

\* line 130: after a move the file is hashed when getHashes holds (the scan
\* stays `here`), else the scan goes on to `nx`
afterMove(gh, here, nx) == IF gh THEN here ELSE nx

\* the move done wrongly: a missing source or a taken destination is not
\* noticed and nothing is raised
moveOkAlways(file, b) == TRUE

\* whether shutil.move(currentPath/file, b/dest_name) succeeds
moveOk(file, b) ==
    /\ watch[currentPath][file] # NoFile
    /\ ~(dest_name(file, b) = <<>> /\ dest[b][file] # NoFile)

\* lines 120-127: one pass of the inner loop, the prefix test and the move
Scan ==
    /\ pc = "scan"
    /\ LET file == onlyfiles[fi]
           b == path[pj]
           nx == nextPos(fi, pj)
       IN IF ~startswith(file, b)
          THEN /\ pc' = nx.pc
               /\ fi' = nx.fi
               /\ pj' = nx.pj
               /\ UNCHANGED <<watch, dest>>
          ELSE IF ~moveOk(file, b)
          THEN /\ pc' = "crashed"
               /\ UNCHANGED <<watch, dest, fi, pj>>
          ELSE /\ watch' = [watch EXCEPT ![currentPath][file] = NoFile]
               /\ dest' = [dest EXCEPT ![b][real_dst(file, b)] =
                                           watch[currentPath][file]]
               /\ LET a == afterMove(getHashes,
                                      [pc |-> "hash", fi |-> fi, pj |-> pj], nx)
                  IN /\ pc' = a.pc
                     /\ fi' = a.fi
                     /\ pj' = a.pj
    /\ UNCHANGED <<config, filePaths, dirExists, ledgerFile, currentPath,
                   hashCode, getHashes, isRunning, path, hashStore,
                   onlyfiles, ext, drops, interfered>>

\* lines 130-135: create the ledger file when missing, hash the moved file,
\* update the mapping and rewrite the ledger file
Hash ==
    /\ pc = "hash"
    /\ LET file == onlyfiles[fi]
           b == path[pj]
           name == dest_name(file, b)
           h == hashFile(hashCode, b, name)
           nx == nextPos(fi, pj)
       IN IF h.ok
          THEN /\ hashStore' = update(hashStore, ledgerKey(b, name), h.hex)
               /\ ledgerFile' = dump(bootstrapLedger(ledgerFile), hashStore')
               /\ pc' = nx.pc
               /\ fi' = nx.fi
               /\ pj' = nx.pj
          ELSE /\ ledgerFile' = bootstrapLedger(ledgerFile)
               /\ pc' = "crashed"
               /\ UNCHANGED <<hashStore, fi, pj>>
    /\ UNCHANGED <<config, filePaths, watch, dirExists, dest, currentPath,
                   hashCode, getHashes, isRunning, path, onlyfiles, ext, drops, interfered>>

\* line 165: the pause between two cycles
Sleep ==
    /\ pc = "sleep"
    /\ pc' = "while"
    /\ UNCHANGED <<config, filePaths, watch, dirExists, dest, ledgerFile,
                   currentPath, hashCode, getHashes, isRunning, path,
                   hashStore, onlyfiles, fi, pj, ext, drops, interfered>>

Process == Boot \/ Startup \/ Loop \/ List \/ Scan \/ Hash \/ Sleep

(* ---- the environment ---------------------------------------------------- *)
\* somebody puts a file into a watch directory while the process pauses
ExtDrop ==
    /\ pc \in {"startup", "sleep"}
    /\ ext < MaxExt
    /\ drops < MaxDrops
    /\ \E c \in DropChoices :
          /\ c[1] \in dirExists
          /\ watch[c[1]][c[2]] = NoFile
          /\ watch' = [watch EXCEPT ![c[1]][c[2]] = c[3]]
    /\ ext' = ext + 1
    /\ drops' = drops + 1
    /\ UNCHANGED <<config, filePaths, dirExists, dest, ledgerFile, progVars,
                   interfered>>

\* somebody takes a listed file out of the watch directory before the scan
\* is through with it; `interfered` remembers it until the next listing
ExtRemove ==
    /\ pc = "scan"
    /\ ext < MaxExt
    /\ \E k \in fi..Len(onlyfiles) :
          /\ watch[currentPath][onlyfiles[k]] # NoFile
          /\ watch' = [watch EXCEPT ![currentPath][onlyfiles[k]] = NoFile]
    /\ ext' = ext + 1
    /\ interfered' = TRUE
    /\ UNCHANGED <<config, filePaths, dirExists, dest, ledgerFile, progVars,
                   drops>>

\* somebody edits config.ini: the running flag, or, reconfiguring, the three
\* other keys together with the prefix list of filePaths.json
ExtEdit ==
    /\ pc \in {"startup", "scan", "sleep", "done"}
    /\ ext < MaxExt
    /\ \E e \in EditChoices :
          /\ config' = [k \in DOMAIN config |->
                          IF k \in DOMAIN e THEN e[k] ELSE config[k]]
          /\ config' # config
          /\ filePaths' = IF "isRunning" \in DOMAIN e THEN filePaths
                          ELSE [present |-> TRUE, data |-> EditedPaths]
    /\ ext' = ext + 1
    /\ UNCHANGED <<watch, dirExists, dest, ledgerFile, progVars, drops,
                   interfered>>

Environment == ExtDrop \/ ExtRemove \/ ExtEdit

Next == Boot \/ Startup \/ Loop \/ List \/ Scan \/ Hash \/ Sleep
           \/ ExtDrop \/ ExtRemove \/ ExtEdit

Spec == Init /\ [][Next]_vars

\* the process takes its steps: straight-line code, and every sleep returns
FairSpec == LiveInit /\ [][Next]_vars /\ WF_vars(Process)

(* ======================================================================= *)
(* Properties                                                              *)
(* ======================================================================= *)
\* name n begins with b, written out independently of the model's test
HasPrefix(n, b) == Len(b) <= Len(n) /\ \A k \in 1..Len(b) : n[k] = b[k]

\* the file that the scan is handling and the prefix it is tested against
CurFile == onlyfiles[fi]
CurPrefix == path[pj]

\* this step is the process moving the file it is handling
MovesCurFile ==
    /\ pc = "scan"
    /\ ext' = ext
    /\ watch[currentPath][CurFile] # NoFile
    /\ watch'[currentPath][CurFile] = NoFile

\* C1: once the re-read of config.ini has reported running=false, no file is
\* listed, moved or hashed: main() never runs with isRunning false.
C1_StopBeforeListing == pc \in {"main", "scan", "hash"} => isRunning

\* C2: for every prefix P of the prefix list and every file named
\* P + " " + suffix, the move of that file produces a file named exactly
\* suffix (a non-empty name), with the same bytes, inside directory P.
C2_MoveStripsPrefix ==
    [][MovesCurFile =>
         \A k \in DOMAIN path :
            (HasPrefix(CurFile, path[k] \o SP)
                /\ Len(CurFile) > Len(path[k]) + 1) =>
               LET suffix == SubSeq(CurFile, Len(path[k]) + 2, Len(CurFile))
               IN /\ suffix \in Names
                  /\ dest'[path[k]][suffix] = watch[currentPath][CurFile]]_vars

\* C3: first match wins: while a file is handled, no prefix is tested or
\* acted on after an earlier prefix of the list has matched the file.
C3_FirstMatchWins ==
    pc \in {"scan", "hash"} =>
       \A k \in 1..(pj - 1) : ~HasPrefix(CurFile, path[k])

\* no cycle is under way: the process is between two cycles, or has ended,
\* by the loop test or by an error
AfterCycles == pc \in {"while", "main", "sleep", "done", "crashed"}

\* the digest a hashMethod value stands for, as a table
DigestTable(m) ==
    CASE m = "MD5" -> md5
      [] m = "SHA-1" -> sha1
      [] m = "SHA-224" -> sha224
      [] m = "SHA-256" -> sha256
      [] OTHER -> md5

\* C4 as stated: after any sequence of cycles with hashing on, every file the
\* process has moved to directory P under the name n has the ledger entry
\* "P | n", in the mapping and in fileHashes.json, and its value is the
\* digest of the bytes now at P/n under the hash method of the process.
C4_LedgerMatchesFiles ==
    (AfterCycles /\ getHashes) =>
       \A b \in AllPrefixes : \A n \in Names :
          dest[b][n] # NoFile =>
             /\ hashStore[ledgerKey(b, n)] = DigestTable(hashCode)[dest[b][n]]
             /\ ledgerFile.state = "json"
             /\ ledgerFile.data[ledgerKey(b, n)] = hashStore[ledgerKey(b, n)]

\* C5 as stated: the re-read at the top of an iteration takes the watch
\* directory, the hashing flag and the hash method from config.ini.
C5_WholeConfigReloaded ==
    [][(pc = "while" /\ pc' = "main") =>
          /\ currentPath' = config.currentPathName
          /\ getHashes' = (config.getHashes = "true")
          /\ hashCode' = config.hashMethod]_vars

\* C5 amended: the re-read at the top of an iteration takes only the running
\* flag from config.ini; the watch directory, the hashing flag and the hash
\* method keep, in every step after the settings were read at start, the
\* values read then, whatever config.ini says now.
C5_OnlyRunningReloaded ==
    [][/\ (pc = "while" /\ pc' = "main") =>
             isRunning' = (config.isRunning = "true")
       /\ pc # "boot" =>
             /\ currentPath' = currentPath
             /\ getHashes' = getHashes
             /\ hashCode' = hashCode]_vars

\* a cycle lists Images and hashes with MD5 although config.ini now names
\* Inbox, which holds a file, and SHA-1 with hashing off
C5_Witness ==
    /\ pc = "hash"
    /\ config.currentPathName = "Inbox"
    /\ config.getHashes = "false"
    /\ config.hashMethod = "SHA-1"
    /\ currentPath = "Images"
    /\ hashCode = "MD5"
    /\ watch["Inbox"][F_a_x] = "y"

\* C6: a failed move ends the handling of that file only: the scan goes on
\* to the rest of the listing and the process stays alive.
C6_FailedMoveIsolated ==
    [][(/\ pc = "scan"
        /\ ext' = ext
        /\ HasPrefix(CurFile, CurPrefix)
        /\ watch[currentPath][CurFile] = NoFile) => pc' \in {"scan", "sleep"}]_vars

\* C7: a step of the process leaves every file of a watch directory whose
\* name starts with no prefix of the list where it is, with the same bytes,
\* and the handling of such a file changes neither the destination
\* directories nor the ledger.
C7_NoMatchUntouched ==
    [][ext' = ext =>
         /\ \A d \in WatchDirs : \A n \in Names :
               (/\ watch[d][n] # NoFile
                /\ \A k \in DOMAIN path : ~HasPrefix(n, path[k]))
               => watch'[d][n] = watch[d][n]
         /\ (/\ pc = "scan"
             /\ \A k \in DOMAIN path : ~HasPrefix(CurFile, path[k]))
               => /\ dest' = dest
                  /\ hashStore' = hashStore
                  /\ ledgerFile' = ledgerFile]_vars

\* a second cycle is listing the file named "x", still in Images, while
\* another file has been moved
C7_Witness ==
    /\ pc = "scan"
    /\ path = <<PB, PA>>
    /\ CurFile = F_x
    /\ watch["Images"][F_x] = "x"
    /\ dest[PA][F_x] = "y"

\* the loop is over, or was never entered
Stopped == ~isRunning /\ pc \in {"startup", "sleep", "while", "done"}

\* C8: once the process has found the running flag false it never holds it
\* true again, and once its loop is over no step lists, moves or hashes a
\* file, whatever config.ini says afterwards.
C8_StoppedIsTerminal ==
    [][/\ (pc # "boot" /\ ~isRunning) => ~isRunning'
       /\ Stopped =>
             /\ pc' \in {"startup", "sleep", "while", "done"}
             /\ onlyfiles' = onlyfiles
             /\ dest' = dest
             /\ hashStore' = hashStore
             /\ ledgerFile' = ledgerFile]_vars

\* the loop has ended after a cycle, config.ini says "true" again and a
\* matching file waits in the watch directory
C8_Witness ==
    /\ pc = "done"
    /\ path # <<>>
    /\ config.isRunning = "true"
    /\ watch[currentPath][F_a_x] # NoFile

\* C9: hashFile raises nothing on a file that is there and returns, for each
\* of MD5, SHA-1, SHA-224 and SHA-256, the digest of that name, and for any
\* other hashMethod value the MD5 digest.
C9_HashMethodFallback ==
    \A b \in AllPrefixes : \A n \in Names :
       dest[b][n] # NoFile =>
          LET h == hashFile(hashCode, b, n)
              c == dest[b][n]
          IN /\ h.ok
             /\ hashCode = "MD5" => h.hex = md5[c]
             /\ hashCode = "SHA-1" => h.hex = sha1[c]
             /\ hashCode = "SHA-224" => h.hex = sha224[c]
             /\ hashCode = "SHA-256" => h.hex = sha256[c]
             /\ hashCode \notin {"MD5", "SHA-1", "SHA-224", "SHA-256"}
                   => h.hex = md5[c]

\* with hashMethod SHA-512 a moved file has been recorded with its MD5 digest
C9_Witness ==
    /\ hashCode = "SHA-512"
    /\ dest[PA][F_x] = "x"
    /\ hashStore[ledgerKey(PA, F_x)] = "9dd4e461268c8034f5c8564e155c67a6"

\* C10: if the running flag of config.ini is false from some point on, the
\* process eventually ends (its loop exits, or an error has ended it), and
\* the loop is left only at the loop test, never from inside a cycle.
C10_EventuallyStops ==
    /\ (<>[](config.isRunning = "false")) => <>(pc \in {"done", "crashed"})
    /\ [][pc' = "done" => pc \in {"startup", "while", "done"}]_vars

\* the flag was set to false during a cycle, that cycle moved its file and
\* the loop has ended
C10_Witness ==
    /\ pc = "done"
    /\ config.isRunning = "false"
    /\ ext > 0
    /\ \E b \in AllPrefixes : \E n \in Names : dest[b][n] # NoFile

\* C11: once the process has recorded a digest, fileHashes.json holds exactly
\* the in-memory mapping: nothing of what the file held before the process
\* started is merged in, so an old entry that was not recorded again is gone.
C11_LedgerIsMapping ==
    hashStore # EmptyStore =>
       /\ ledgerFile.state = "json"
       /\ \A k \in Keys : ledgerFile.data[k] = hashStore[k]

\* an installation whose fileHashes.json held "b | x" and "a | x" has
\* recorded a digest, and the file no longer holds "b | x"
C11_Witness ==
    /\ hashCode = "SHA-1"
    /\ pc = "sleep"
    /\ hashStore # EmptyStore
    /\ OldLedger[ledgerKey(PB, F_x)] # NoEntry
    /\ ledgerFile.data[ledgerKey(PB, F_x)] = NoEntry

\* C12: a hash step that fails (the moved file's name was the prefix and a
\* space only, so the path handed to hashFile is the prefix directory) undoes
\* nothing: the process ends, the file stays in the prefix directory and out
\* of the watch directory, and neither the mapping nor fileHashes.json gains
\* an entry.
C12_NoRollback ==
    [][(/\ pc = "hash"
        /\ ext' = ext
        /\ (dest_name(CurFile, CurPrefix) = <<>> \/ pc' = "crashed"))
       => /\ pc' = "crashed"
          /\ watch' = watch
          /\ dest' = dest
          /\ watch'[currentPath][CurFile] = NoFile
          /\ dest'[CurPrefix][real_dst(CurFile, CurPrefix)] # NoFile
          /\ hashStore' = hashStore
          /\ ledgerFile'.data = ledgerFile.data]_vars

\* the process has ended in the hash step of "a ": the file is in the
\* directory a, not in the watch directory, and nothing was recorded
C12_Witness ==
    /\ pc = "crashed"
    /\ getHashes
    /\ CurFile = F_a_
    /\ CurPrefix = PA
    /\ dest[PA][F_a_] # NoFile
    /\ watch[currentPath][F_a_] = NoFile
    /\ hashStore = EmptyStore
    /\ ledgerFile.state = "empty"

\* C13: when a listed file whose name starts with the prefix under test has
\* been removed from the watch directory by somebody else after the listing,
\* the move fails, nothing is moved, and the process ends for good: no later
\* step handles the rest of the listing.
C13_RaceTerminates ==
    [][/\ (/\ pc = "scan"
           /\ ext' = ext
           /\ HasPrefix(CurFile, CurPrefix)
           /\ watch[currentPath][CurFile] = NoFile)
          => /\ pc' = "crashed"
             /\ UNCHANGED <<watch, dest, hashStore, ledgerFile, fi, pj>>
       /\ pc = "crashed"
          => /\ pc' = "crashed"
             /\ UNCHANGED <<watch, dest, hashStore, ledgerFile, fi, pj>>]_vars

\* the interleaving: a listed file was removed before its move, nothing has
\* been moved, the process has ended, and a later file of the listing that
\* starts with a prefix is still in the watch directory
C13_Witness ==
    /\ pc = "crashed"
    /\ interfered
    /\ HasPrefix(CurFile, CurPrefix)
    /\ watch[currentPath][CurFile] = NoFile
    /\ \A b \in DOMAIN dest : \A n \in DOMAIN dest[b] : dest[b][n] = NoFile
    /\ \E k \in (fi + 1)..Len(onlyfiles) :
          /\ watch[currentPath][onlyfiles[k]] # NoFile
          /\ \E j \in 1..Len(path) : HasPrefix(onlyfiles[k], path[j])

\* C14: with getHashes false a file whose name starts with the prefix under
\* test is moved into the prefix directory under its stripped name all the
\* same, and no step changes the mapping or fileHashes.json; whatever
\* getHashes is, fileHashes.json changes only in the hash step of a moved
\* file, never while the process starts.
C14_NoDigestNoLedger ==
    [][/\ ~getHashes => hashStore' = hashStore /\ ledgerFile' = ledgerFile
       /\ ledgerFile' # ledgerFile => pc = "hash" /\ getHashes
       /\ (/\ ~getHashes
           /\ pc = "scan"
           /\ ext' = ext
           /\ HasPrefix(CurFile, CurPrefix)
           /\ moveOk(CurFile, CurPrefix))
          => /\ watch'[currentPath][CurFile] = NoFile
             /\ dest'[CurPrefix][real_dst(CurFile, CurPrefix)]
                   = watch[currentPath][CurFile]
             /\ pc' # "hash"]_vars

\* without digests "a x" has been moved to a/x, and there is still no
\* fileHashes.json and no entry in the mapping
C14_Witness ==
    /\ ~getHashes
    /\ pc = "sleep"
    /\ dest[PA][F_x] # NoFile
    /\ \E k \in 1..Len(onlyfiles) : onlyfiles[k] = F_a_x
    /\ watch[currentPath][F_a_x] = NoFile
    /\ ledgerFile.state = "absent"
    /\ hashStore = EmptyStore

\* C15: once the process has loaded the prefix list (lines 139-144), no step
\* changes it, whatever is written to filePaths.json meanwhile: the prefix
\* tested at position pj of any later cycle is the one loaded at startup, and
\* a file moves into the directory of that prefix and of no other.
C15_PrefixesLoadedOnce ==
    [][/\ pc \notin {"boot", "startup"} => path' = path
       /\ (pc = "scan" /\ ext' = ext /\ dest' # dest)
          => /\ HasPrefix(CurFile, CurPrefix)
             /\ \A b \in DOMAIN dest : b # CurPrefix => dest'[b] = dest[b]]_vars

\* filePaths.json has been rewritten to ["b"] while the process runs with the
\* list ["a"], and the process is about to test "a" on a file that starts
\* with it
C15_Witness ==
    /\ pc = "scan"
    /\ path = <<PA>>
    /\ filePaths.data = EditedPaths
    /\ filePaths.data # path
    /\ HasPrefix(CurFile, CurPrefix)
    /\ watch[currentPath][CurFile] # NoFile

\* the positions of s where old occurs, the positions those occurrences
\* cover, and s without the covered positions
C16_Occurrences(s, old) ==
    {i \in 1..(Len(s) - Len(old) + 1) : SubSeq(s, i, i + Len(old) - 1) = old}
C16_Kept(s, old) ==
    {k \in 1..Len(s) :
        \A i \in C16_Occurrences(s, old) : k < i \/ k >= i + Len(old)}
C16_Without(s, old) ==
    LET keep == C16_Kept(s, old)
        nth(i) == CHOOSE k \in keep : Cardinality({m \in keep : m < k}) = i - 1
    IN [i \in 1..Cardinality(keep) |-> s[nth(i)]]
C16_NoSpaceAfter(n, b) == Len(n) > Len(b) => n[Len(b) + 1] # " "

\* C16: a listed file whose name starts with the prefix under test, with
\* something else than a space right after it, is moved all the same: it
\* leaves the watch directory for the prefix directory, under its name
\* without every occurrence of prefix + " ", which is its own name when
\* there is no occurrence.
C16_MatchWithoutSpace ==
    [][(/\ pc = "scan"
        /\ ext' = ext
        /\ HasPrefix(CurFile, CurPrefix)
        /\ C16_NoSpaceAfter(CurFile, CurPrefix)
        /\ watch[currentPath][CurFile] # NoFile)
       => /\ watch'[currentPath][CurFile] = NoFile
          /\ C16_Without(CurFile, CurPrefix \o SP) \in DOMAIN dest'[CurPrefix]
          /\ dest'[CurPrefix][C16_Without(CurFile, CurPrefix \o SP)]
                = watch[currentPath][CurFile]
          /\ C16_Occurrences(CurFile, CurPrefix \o SP) = {}
                => dest'[CurPrefix][CurFile] = watch[currentPath][CurFile]]_vars

\* "aa x" has been moved under the prefix a and is a/ax, and "ab x" has been
\* moved under the prefix a and is a/"ab x"
C16_Witness ==
    /\ \E k \in 1..Len(path) : path[k] = PA
    /\ watch[currentPath][F_aa_x] = NoFile
    /\ dest[PA][<<"a", "x">>] # NoFile
    /\ watch[currentPath][F_ab_x] = NoFile
    /\ dest[PA][F_ab_x] # NoFile

\* the process found isRunning false when it started: it is before the
\* `if isRunning:` of line 139 or has ended, and has never loaded a prefix
C17_StartedStopped == pc \in {"startup", "done"} /\ ~isRunning /\ path = <<>>

\* C17: the state the process starts in is the isRunning of config.ini as
\* read at startup; when that is false the process ends without a single
\* cycle -- no listing, no move, no digest, no write of fileHashes.json --
\* whatever config.ini is changed to afterwards.
C17_StoppedAtStartup ==
    [][/\ pc = "boot" => (isRunning' <=> config'.isRunning = "true")
       /\ (pc = "boot" /\ ~isRunning') => C17_StartedStopped'
       /\ C17_StartedStopped
          => /\ C17_StartedStopped'
             /\ onlyfiles' = <<>>
             /\ hashStore' = EmptyStore
             /\ \A b \in DOMAIN dest : \A n \in DOMAIN dest[b] : dest'[b][n] = NoFile
             /\ ledgerFile' = ledgerFile
             /\ \A d \in DOMAIN watch : \A n \in DOMAIN watch[d] :
                   watch[d][n] # NoFile => watch'[d][n] = watch[d][n]]_vars

\* started with isRunning false, the process has ended without a cycle,
\* although config.ini now says true and "a x" waits in the watch directory
\* with a in the prefix list
C17_Witness ==
    /\ C17_StartedStopped
    /\ pc = "done"
    /\ config.isRunning = "true"
    /\ watch[currentPath][F_a_x] # NoFile
    /\ \E k \in 1..Len(filePaths.data) : filePaths.data[k] = PA
    /\ onlyfiles = <<>>
    /\ dest[PA][F_x] = NoFile

\* the name starts with some prefix of the loaded list
C18_Matches(n) == \E j \in 1..Len(path) : HasPrefix(n, path[j])
C18_Listed == {onlyfiles[k] : k \in 1..Len(onlyfiles)}

\* C18: at the step that ends a cycle (the listing itself when nothing is to
\* be scanned), every listed file whose name starts
\* with some prefix of the list is out of the watch directory; and when
\* nobody else touched the watch directory during the cycle, the files in it
\* that start with no prefix are exactly the listed ones that start with no
\* prefix.
C18_CycleMovesMatches ==
    [][(pc \in {"main", "scan", "hash"} /\ pc' = "sleep")
       => /\ \A n \in C18_Listed' :
                C18_Matches(n) => watch'[currentPath][n] = NoFile
          /\ ~interfered'
             => {n \in DOMAIN watch'[currentPath] :
                    watch'[currentPath][n] # NoFile /\ ~C18_Matches(n)}
                = {n \in C18_Listed' : ~C18_Matches(n)}]_vars

\* a cycle nobody interfered with has ended: of the two listed files, "a x"
\* has left the watch directory for a/x and "x" is still there
C18_Witness ==
    /\ pc = "sleep"
    /\ ~interfered
    /\ Len(onlyfiles) = 2
    /\ F_a_x \in C18_Listed
    /\ F_x \in C18_Listed
    /\ C18_Matches(F_a_x)
    /\ ~C18_Matches(F_x)
    /\ watch[currentPath][F_a_x] = NoFile
    /\ watch[currentPath][F_x] # NoFile
    /\ dest[PA][F_x] # NoFile

C19_Recorded == {k \in Keys : hashStore[k] # NoEntry}

\* C19: no step takes a key out of the mapping, and a step that records a
\* digest leaves every key recorded so far in fileHashes.json, the recorded
\* key with the new digest and every other key with the digest it had.
C19_KeysOnlyGrow ==
    [][/\ \A k \in C19_Recorded : hashStore'[k] # NoEntry
       /\ (pc = "hash" /\ ext' = ext /\ pc' # "crashed")
          => LET key == ledgerKey(CurPrefix, dest_name(CurFile, CurPrefix))
             IN /\ hashStore'[key] = hashObject(hashCode)[dest[CurPrefix][dest_name(CurFile, CurPrefix)]]
                /\ \A k \in C19_Recorded \cup {key} :
                      /\ ledgerFile'.data[k] = hashStore'[k]
                      /\ k # key => hashStore'[k] = hashStore[k]]_vars

\* a second key has been recorded, and fileHashes.json holds both the key
\* recorded before and the new one
C19_Witness ==
    /\ Cardinality(C19_Recorded) = 2
    /\ pc = "sleep"
    /\ \A k \in C19_Recorded : ledgerFile.data[k] = hashStore[k]

====
